---- MODULE Spec2Model ----
(***************************************************************************)
(* Elasticsearch client resolution of the log-query module                 *)
(* (modules/extensions/loghub/index/query/clients.go).                     *)
(*                                                                         *)
(* Go strings are TLA+ strings (Len, \o and SubSeq work on them), slices   *)
(* are sequences, a nil slice is the empty sequence and a nil pointer is   *)
(* the empty sequence of a one-element option.                             *)
(*                                                                         *)
(* The provider's collaborators (cluster registry, persistence layer,     *)
(* elastic.NewClient) are outside the program: every call of one of them   *)
(* is a nondeterministic choice among the answers it can give.  A Go       *)
(* function that calls them is therefore an operator whose value is the    *)
(* SET of its possible outcomes; an outcome records the clients returned,  *)
(* the collaborator calls made with the answer each one gave (lookups),    *)
(* and the number of search-client handles constructed so far (created).   *)
(*                                                                         *)
(* Spec is one operation invoked on the provider, SpecSequence a sequence  *)
(* of log queries on one provider, and SpecProvision the goroutines of the *)
(* local volume provisioner (package localvolume) calling Provision;       *)
(* SpecRoutes is the HTTP server of kms dispatching requests over the      *)
(* route table of Endpoints.Routes().                                      *)
(***************************************************************************)
EXTENDS Integers, Sequences, FiniteSets, TLC

VARIABLES
    QueryBackES,    \* p.C.QueryBackES, the dual-read configuration flag
    created,        \* number of search-client handles constructed so far
    call,           \* the operation invoked, its arguments and its outcome
    issued,         \* the handles carried by the clients of the calls that returned
    hostPathOnce,   \* the sync.Once of the volume provisioner
    hostPathErr,    \* the error DiscoverMountPoint gave, Nil when none
    hostPathVolumePrefixInContainer,    \* the mount point discovered
    discovered,     \* the outcomes of the runs of DiscoverMountPoint, in order
    provision,      \* for each goroutine, its call of Provision and where it is
    provisions,     \* number of calls of Provision started
    routes,         \* the route table registered with the HTTP server of kms
    served          \* the requests the server dispatched, with the handler of each

\* the state of the volume provisioner
lvVars == <<hostPathOnce, hostPathErr, hostPathVolumePrefixInContainer,
            discovered, provision, provisions>>

\* the state of the log-query provider
esVars == <<QueryBackES, created, call, issued>>

\* the state of the kms HTTP server
kmsVars == <<routes, served>>

vars == <<esVars, lvVars, kmsVars>>

-----------------------------------------------------------------------------
(* Bounds of the model *)

MaxRows == 2        \* deployment rows one persistence query returns
MaxInstances == 2   \* instances one sibling listing returns
MaxFilters == 2     \* filter items of a request
MaxAddons == 3      \* addon keys handed to getLogIndices directly
MaxPatterns == 2    \* index patterns handed to getCenterESClients directly
MaxCreated == 2     \* handles constructed after which no further query is made
MaxProvisions == 3  \* calls of Provision started
MaxRequests == 2    \* requests the kms server dispatches

-----------------------------------------------------------------------------
(* Program constants *)

LogVersion1 == "1.0.0"
LogVersion2 == "2.0.0"

LogTypeLogAnalytics == "log-analytics"
LogTypeLogService == "log-service"

\* the two fixed handles of the provider (p.client, p.backClient)
client == "p.client"
backClient == "p.backClient"

-----------------------------------------------------------------------------
(* String helpers of the Go standard library, computed character by        *)
(* character.                                                              *)

RECURSIVE ReplaceAll(_, _, _)
\* strings.ReplaceAll(s, old, new) for a one-character old
ReplaceAll(s, old, new) ==
    IF Len(s) = 0 THEN ""
    ELSE (IF SubSeq(s, 1, 1) = old THEN new ELSE SubSeq(s, 1, 1))
            \o ReplaceAll(SubSeq(s, 2, Len(s)), old, new)

IsSpace(c) == c \in {" ", "\t", "\n", "\r"}

RECURSIVE TrimLeft(_)
TrimLeft(s) ==
    IF Len(s) > 0 /\ IsSpace(SubSeq(s, 1, 1))
    THEN TrimLeft(SubSeq(s, 2, Len(s)))
    ELSE s

RECURSIVE TrimRight(_)
TrimRight(s) ==
    IF Len(s) > 0 /\ IsSpace(SubSeq(s, Len(s), Len(s)))
    THEN TrimRight(SubSeq(s, 1, Len(s) - 1))
    ELSE s

\* strings.TrimSpace
TrimSpace(s) == TrimRight(TrimLeft(s))

Digit(d) == SubSeq("0123456789", d + 1, d + 1)

RECURSIVE FormatInt(_)
\* strconv.FormatInt(n, 10) for n >= 0
FormatInt(n) == IF n < 10 THEN Digit(n) ELSE FormatInt(n \div 10) \o Digit(n % 10)

-----------------------------------------------------------------------------
(* Input domains *)

SeqsUpTo(S, n) == UNION {[1..k -> S] : k \in 0..n}

\* sequences without repetition: the rows of a table are distinct
DistinctSeqsUpTo(S, n) ==
    {s \in SeqsUpTo(S, n) : \A i, j \in DOMAIN s : i # j => s[i] # s[j]}

OrgIDs == {7, 42}

ClusterLists == {<<>>, <<"c1">>, <<"c1", "c2">>}

Deployment(org, cluster, ctype, url, collector, ltype) ==
    [OrgID |-> org, ClusterName |-> cluster, ClusterType |-> ctype,
     ESURL |-> url, CollectorURL |-> collector, LogType |-> ltype]

\* the deployment rows the persistence layer can hold
DeploymentRows ==
    { Deployment("42", "c1", 0, "http://es1", "", LogTypeLogAnalytics),
      Deployment("42", "c1", 0, "", "", LogTypeLogService),
      Deployment("42", "c2", 1, "http://es2", "", LogTypeLogService),
      Deployment("42", "c1", 0, "http://es1,http://es3", "http://c", LogTypeLogAnalytics),
      Deployment("42", "c2", 0, "http://es2", " ", "other"),
      Deployment("7", "c1", 1, "http://es1", "", LogTypeLogService) }

Instance(key) ==
    [LogKey |-> key, ClusterName |-> "c1", ProjectId |-> "1", Workspace |-> "PROD"]

\* the addon keys of the instances of one (cluster, project, workspace)
GroupKeys == {"a", "b"}

FilterItems ==
    { [Key |-> "origin", Value |-> "sls"],
      [Key |-> "origin", Value |-> "dice"],
      [Key |-> "origin", Value |-> "unknown-value"],
      [Key |-> "origin", Value |-> ""],
      [Key |-> "level", Value |-> "sls"] }

\* the requests; those with a cluster name or an addon, where the filters
\* are not read, carry at most one filter
Requests ==
    { r \in [ClusterName : {"", "c1"}, Addon : {"", "a", "*", "a*"},
             Filters : SeqsUpTo(FilterItems, MaxFilters)] :
        (r.ClusterName # "" \/ r.Addon # "") => Len(r.Filters) <= 1 }

-----------------------------------------------------------------------------
(* Outcomes *)

Outcome(clients, lookups, n) ==
    [clients |-> clients, lookups |-> lookups, created |-> n, panic |-> FALSE]

\* the call does not return: a panic unwinds it, whatever it had built
Panic(o) == [clients |-> <<>>, lookups |-> o.lookups, created |-> o.created,
             panic |-> TRUE]

Lookup(fn, args, err, ret) ==
    [fn |-> fn, args |-> args, err |-> err, ret |-> ret]

\* Handle with a fault: the constructor hands out one pooled client
Handle_Pooled(n) == <<"elastic.Client", 1>>

\* the handle of the n-th client elastic.NewClient constructed
Handle(n) == <<"elastic.Client", n>>

-----------------------------------------------------------------------------
(* Collaborators: the answers each call can get *)

Range(f) == {f[i] : i \in DOMAIN f}

\* p.bdl.ListClusters("", uint64(orgID)): an error, or the clusters of the org
ListClusters(orgID) ==
    {Lookup("ListClusters", <<"", orgID>>, TRUE, <<>>)}
    \cup {Lookup("ListClusters", <<"", orgID>>, FALSE, [i \in DOMAIN l |-> [Name |-> l[i]]]) :
            l \in ClusterLists}

\* p.db.LogDeployment.QueryByOrgIDAndClusters: an error, or rows of the
\* organization in the named clusters
QueryByOrgIDAndClusters(orgID, clusterNames) ==
    {Lookup("QueryByOrgIDAndClusters", <<orgID, clusterNames>>, TRUE, <<>>)}
    \cup {Lookup("QueryByOrgIDAndClusters", <<orgID, clusterNames>>, FALSE, list) :
            list \in DistinctSeqsUpTo({d \in DeploymentRows :
                                 /\ d.OrgID = FormatInt(orgID)
                                 /\ d.ClusterName \in Range(clusterNames)}, MaxRows)}

\* p.db.LogInstanceDB.GetByLogKey: an error, no instance, or the instance
GetByLogKey(logKey) ==
    { Lookup("GetByLogKey", <<logKey>>, TRUE, <<>>),
      Lookup("GetByLogKey", <<logKey>>, FALSE, <<>>),
      Lookup("GetByLogKey", <<logKey>>, FALSE, <<Instance(logKey)>>) }

\* p.db.LogInstanceDB.GetListByClusterAndProjectIdAndWorkspace: an error, or
\* the instances of that cluster, project and workspace
GetListByClusterAndProjectIdAndWorkspace(clusterName, projectId, workspace) ==
    {Lookup("GetListByClusterAndProjectIdAndWorkspace",
            <<clusterName, projectId, workspace>>, TRUE, <<>>)}
    \cup {Lookup("GetListByClusterAndProjectIdAndWorkspace",
                 <<clusterName, projectId, workspace>>, FALSE, list) :
            list \in SeqsUpTo({[LogKey |-> k, ClusterName |-> clusterName,
                                ProjectId |-> projectId, Workspace |-> workspace] :
                                  k \in GroupKeys}, MaxInstances)}

NoLookup == Lookup("", <<>>, FALSE, <<>>)

\* What the instance table answers during one call of
\* getESClientsFromLogAnalyticsByCluster: the same query gets the same answer
\* for every deployment row of the call.
LogInstanceDB(addon) ==
    IF Len(addon) > 0
    THEN UNION { IF r.ret # <<>>
                 THEN {[byKey |-> r, group |-> g] :
                         g \in GetListByClusterAndProjectIdAndWorkspace(
                                  r.ret[1].ClusterName, r.ret[1].ProjectId, r.ret[1].Workspace)}
                 ELSE {[byKey |-> r, group |-> NoLookup]} : r \in GetByLogKey(addon) }
    ELSE {[byKey |-> NoLookup, group |-> NoLookup]}

RECURSIVE SplitFrom(_, _, _)
SplitFrom(s, sep, cur) ==
    IF Len(s) = 0 THEN <<cur>>
    ELSE IF SubSeq(s, 1, 1) = sep
         THEN <<cur>> \o SplitFrom(SubSeq(s, 2, Len(s)), sep, "")
         ELSE SplitFrom(SubSeq(s, 2, Len(s)), sep, cur \o SubSeq(s, 1, 1))

\* strings.Split(s, sep) for a one-character sep
Split(s, sep) == SplitFrom(s, sep, "")

\* the dynamic type of httpclient.New(httpclient.WithClusterDialer(clusterName))
\* .BackendClient().Transport: the package builds its client around a plain
\* *http.Transport
BackendTransport(clusterName) == "*http.Transport"

\* newHTTPClient with a fault: the transport is asserted to be of another type
newHTTPClient_WrongAssertion(clusterName) ==
    IF BackendTransport(clusterName) = "*http2.Transport"
    THEN [panic |-> FALSE, client |-> <<clusterName>>]
    ELSE [panic |-> TRUE, client |-> <<>>]

\* lines 213-227: the type assertion on the transport has no ok-check, it
\* panics on any other type; the client dials through the cluster dialer
newHTTPClient(clusterName) ==
    IF BackendTransport(clusterName) = "*http.Transport"
    THEN [panic |-> FALSE, client |-> <<clusterName>>]
    ELSE [panic |-> TRUE, client |-> <<>>]

\* elastic.NewClient(options...): an error or a client; clusterType 1 dials
\* through newHTTPClient(clusterName).  The basic-auth option read from
\* d.ESConfig (lines 155-163) is left out: no field of the ESClient built
\* depends on it.
NewClient(urls, clusterType, clusterName) ==
    LET options == [URL |-> urls, Sniff |-> FALSE, Healthcheck |-> FALSE,
                    HttpClient |-> IF clusterType = 1
                                   THEN newHTTPClient(clusterName).client ELSE <<>>]
    IN {Lookup("elastic.NewClient", options, TRUE, <<>>),
        Lookup("elastic.NewClient", options, FALSE, <<>>)}

-----------------------------------------------------------------------------
(* clients.go *)

ESClient(c, urls, version, indices) ==
    [Client |-> c, URLs |-> urls, LogVersion |-> version, Indices |-> indices]

RECURSIVE rangeAddons_Dedup(_, _, _)
\* rangeAddons with a fault: an addon key seen before is not emitted again
rangeAddons_Dedup(prefix, addons, i) ==
    IF i > Len(addons) THEN <<>>
    ELSE IF \E j \in 1..(i - 1) : addons[j] = addons[i]
         THEN rangeAddons_Dedup(prefix, addons, i + 1)
         ELSE <<prefix \o addons[i], prefix \o addons[i] \o "-*">>
                 \o rangeAddons_Dedup(prefix, addons, i + 1)


RECURSIVE rangeAddons(_, _, _)
\* the loop of getLogIndices over addons[i..]
rangeAddons(prefix, addons, i) ==
    IF i > Len(addons) THEN <<>>
    ELSE <<prefix \o addons[i], prefix \o addons[i] \o "-*">>
            \o rangeAddons(prefix, addons, i + 1)

\* getLogIndices with a fault: the org scope is not looked at
getLogIndices_NoOrgScope(prefix, orgId, addons) ==
    IF Len(addons) > 0 THEN rangeAddons(prefix, addons, 1)
    ELSE <<prefix \o "*">>

\* getLogIndices with a fault: only the addon patterns are produced
getLogIndices_AddonsOnly(prefix, orgId, addons) == rangeAddons(prefix, addons, 1)


getLogIndices(prefix, orgId, addons) ==
    IF Len(addons) > 0 THEN rangeAddons(prefix, addons, 1)
    ELSE IF Len(orgId) > 0 THEN <<prefix \o orgId>>
    ELSE <<prefix \o "*">>

\* getCenterESClients with a fault: the back reader is never added
getCenterESClients_PrimaryOnly(indices) == << ESClient(client, "-", "", indices) >>


getCenterESClients(indices) ==
    IF QueryBackES
    THEN << ESClient(client, "-", "", indices),
            ESClient(backClient, "-b", "", indices) >>
    ELSE << ESClient(client, "-", "", indices) >>

RECURSIVE rangeSameGroup_NoCache(_, _, _, _)
\* rangeSameGroup with a fault: keyCaches is not consulted
rangeSameGroup_NoCache(instances, i, keyCaches, addons) ==
    IF i > Len(instances) THEN addons
    ELSE rangeSameGroup_NoCache(instances, i + 1, keyCaches \cup {instances[i].LogKey},
                                Append(addons, instances[i].LogKey))

RECURSIVE rangeSameGroup(_, _, _, _)
\* the loop over sameGroupLogInstances[i..] with its keyCaches
rangeSameGroup(instances, i, keyCaches, addons) ==
    IF i > Len(instances) THEN addons
    ELSE IF instances[i].LogKey \in keyCaches
         THEN rangeSameGroup(instances, i + 1, keyCaches, addons)
         ELSE rangeSameGroup(instances, i + 1, keyCaches \cup {instances[i].LogKey},
                             Append(addons, instances[i].LogKey))

\* lines 125-148: the addons of one deployment row and the instance lookups made
sameGroupAddons(addon, db) ==
    IF Len(addon) > 0
    THEN LET logInstance == db.byKey.ret IN
         IF logInstance # <<>>
         THEN [addons |-> rangeSameGroup(db.group.ret, 1, {}, <<>>),
               lookups |-> <<db.byKey, db.group>>]
         ELSE [addons |-> <<addon>>, lookups |-> <<db.byKey>>]
    ELSE [addons |-> <<>>, lookups |-> <<>>]

\* resolveDeployment with a fault: the org scope is kept for log-analytics
resolveDeployment_KeepsOrgScope(d, addon, db, acc) ==
    LET sib == sameGroupAddons(addon, db)
        orgId == d.OrgID
        CollectorURL == TrimSpace(d.CollectorURL)
    IN IF d.ClusterType = 1 /\ newHTTPClient(d.ClusterName).panic
       THEN {Panic(Outcome(acc.clients, acc.lookups \o sib.lookups, acc.created))}
       ELSE
       { LET lookups == acc.lookups \o sib.lookups \o <<nc>> IN
         IF nc.err
         THEN Outcome(acc.clients, lookups, acc.created)
         ELSE IF Len(CollectorURL) > 0 \/ d.LogType = LogTypeLogService
         THEN Outcome(Append(acc.clients,
                             ESClient(Handle(acc.created + 1), d.ESURL, LogVersion2,
                                      getLogIndices("rlogs-", orgId, sib.addons))),
                      lookups, acc.created + 1)
         ELSE Outcome(Append(acc.clients,
                             ESClient(Handle(acc.created + 1), d.ESURL, LogVersion1,
                                      getLogIndices("spotlogs-", orgId, sib.addons))),
                      lookups, acc.created + 1)
       : nc \in NewClient(Split(d.ESURL, ","), d.ClusterType, d.ClusterName) }

\* resolveDeployment with a fault: the collector URL is not trimmed
resolveDeployment_NoTrim(d, addon, db, acc) ==
    LET sib == sameGroupAddons(addon, db)
        orgId == IF d.LogType = LogTypeLogAnalytics THEN "" ELSE d.OrgID
        CollectorURL == d.CollectorURL
    IN IF d.ClusterType = 1 /\ newHTTPClient(d.ClusterName).panic
       THEN {Panic(Outcome(acc.clients, acc.lookups \o sib.lookups, acc.created))}
       ELSE
       { LET lookups == acc.lookups \o sib.lookups \o <<nc>> IN
         IF nc.err
         THEN Outcome(acc.clients, lookups, acc.created)
         ELSE IF Len(CollectorURL) > 0 \/ d.LogType = LogTypeLogService
         THEN Outcome(Append(acc.clients,
                             ESClient(Handle(acc.created + 1), d.ESURL, LogVersion2,
                                      getLogIndices("rlogs-", orgId, sib.addons))),
                      lookups, acc.created + 1)
         ELSE Outcome(Append(acc.clients,
                             ESClient(Handle(acc.created + 1), d.ESURL, LogVersion1,
                                      getLogIndices("spotlogs-", orgId, sib.addons))),
                      lookups, acc.created + 1)
       : nc \in NewClient(Split(d.ESURL, ","), d.ClusterType, d.ClusterName) }

\* lines 124-194: one deployment row with a connection URL; acc is the
\* outcome so far
resolveDeployment(d, addon, db, acc) ==
    LET sib == sameGroupAddons(addon, db)
        orgId == IF d.LogType = LogTypeLogAnalytics THEN "" ELSE d.OrgID
        CollectorURL == TrimSpace(d.CollectorURL)
    IN IF d.ClusterType = 1 /\ newHTTPClient(d.ClusterName).panic
       THEN {Panic(Outcome(acc.clients, acc.lookups \o sib.lookups, acc.created))}
       ELSE
       { LET lookups == acc.lookups \o sib.lookups \o <<nc>> IN
         IF nc.err
         THEN Outcome(acc.clients, lookups, acc.created)
         ELSE IF Len(CollectorURL) > 0 \/ d.LogType = LogTypeLogService
         THEN Outcome(Append(acc.clients,
                             ESClient(Handle(acc.created + 1), d.ESURL, LogVersion2,
                                      getLogIndices("rlogs-", orgId, sib.addons))),
                      lookups, acc.created + 1)
         ELSE Outcome(Append(acc.clients,
                             ESClient(Handle(acc.created + 1), d.ESURL, LogVersion1,
                                      getLogIndices("spotlogs-", orgId, sib.addons))),
                      lookups, acc.created + 1)
       : nc \in NewClient(Split(d.ESURL, ","), d.ClusterType, d.ClusterName) }

\* skipDeployment with a fault: no row is skipped
skipDeployment_Never(d) == FALSE

\* line 120: rows without a connection URL are skipped
skipDeployment(d) == Len(d.ESURL) <= 0

RECURSIVE rangeList_ReturnOnFailure(_, _, _, _, _)
\* rangeList with a fault: a failed construction returns nil instead of
\* continuing with the next row
rangeList_ReturnOnFailure(list, i, addon, db, acc) ==
    IF i > Len(list) \/ acc.panic THEN {acc}
    ELSE IF skipDeployment(list[i])
         THEN rangeList_ReturnOnFailure(list, i + 1, addon, db, acc)
         ELSE UNION { IF o.lookups[Len(o.lookups)].fn = "elastic.NewClient"
                         /\ o.lookups[Len(o.lookups)].err
                      THEN {Outcome(<<>>, o.lookups, o.created)}
                      ELSE rangeList_ReturnOnFailure(list, i + 1, addon, db, o) :
                        o \in resolveDeployment(list[i], addon, db, acc) }

RECURSIVE rangeList(_, _, _, _, _)
\* lines 119-196: the loop over list[i..]
rangeList(list, i, addon, db, acc) ==
    IF i > Len(list) \/ acc.panic THEN {acc}
    ELSE IF skipDeployment(list[i])
         THEN rangeList(list, i + 1, addon, db, acc)
         ELSE UNION { rangeList(list, i + 1, addon, db, o) :
                        o \in resolveDeployment(list[i], addon, db, acc) }

getESClientsFromLogAnalyticsByCluster(orgID, addon, clusterNames) ==
    UNION { IF q.err
            THEN {Outcome(<<>>, <<q>>, created)}
            ELSE UNION { rangeList(q.ret, 1, addon, db, Outcome(<<>>, <<q>>, created)) :
                           db \in LogInstanceDB(addon) }
          : q \in QueryByOrgIDAndClusters(orgID, clusterNames) }

\* after: the outcome o, preceded by the lookups made before it
after(lookups, o) == [o EXCEPT !.lookups = lookups \o o.lookups]

getESClientsFromLogAnalytics(orgID) ==
    UNION { IF c.err
            THEN {Outcome(<<>>, <<c>>, created)}
            ELSE LET clusterNames == [i \in DOMAIN c.ret |-> c.ret[i].Name] IN
                 {after(<<c>>, o) :
                    o \in getESClientsFromLogAnalyticsByCluster(orgID, "", clusterNames)}
          : c \in ListClusters(orgID) }

RECURSIVE rangeFilters_FirstWins(_, _, _)
\* rangeFilters with a fault: an earlier item is not overwritten by a later one
rangeFilters_FirstWins(items, i, filters) ==
    IF i > Len(items) THEN filters
    ELSE rangeFilters_FirstWins(items, i + 1,
                      [k \in DOMAIN filters \cup {items[i].Key} |->
                          IF k \in DOMAIN filters THEN filters[k] ELSE items[i].Value])


RECURSIVE rangeFilters(_, _, _)
\* the loop filling the filters map from req.Filters[i..]
rangeFilters(items, i, filters) ==
    IF i > Len(items) THEN filters
    ELSE rangeFilters(items, i + 1,
                      [k \in DOMAIN filters \cup {items[i].Key} |->
                          IF k = items[i].Key THEN items[i].Value ELSE filters[k]])

\* filters[key] of a Go map[string]string: the zero value when key is absent
MapIndex(filters, key) == IF key \in DOMAIN filters THEN filters[key] ELSE ""

central(clients) == Outcome(clients, <<>>, created)

\* incompleteScope with a fault: rejects a request only when both are missing
incompleteScope_BothMissing(req) == Len(req.ClusterName) <= 0 /\ Len(req.Addon) <= 0

\* line 59: one of cluster name and addon is missing
incompleteScope(req) == Len(req.ClusterName) <= 0 \/ Len(req.Addon) <= 0

\* fallBack with a fault: the fallback to the central cluster is forgotten
fallBack_Never(o) == o

\* lines 73-76: without deployment clients, fall back to the central cluster
fallBack(o) ==
    IF o.panic THEN o
    ELSE IF Len(o.clients) <= 0
    THEN Outcome(getCenterESClients(<<"rlogs-*">>), o.lookups, o.created)
    ELSE o

\* union with a fault: the deployment clients come first
union_DeploymentsFirst(o) ==
    Outcome(o.clients \o getCenterESClients(<<"sls-*">>), o.lookups, o.created)

\* line 80: the central clients, then the deployment clients
union(o) ==
    IF o.panic THEN o
    ELSE Outcome(getCenterESClients(<<"sls-*">>) \o o.clients, o.lookups, o.created)

\* byOrigin with a fault: an unrecognized origin is treated as no origin
byOrigin_UnknownAsAbsent(orgID, origin) ==
    IF origin = "sls"
    THEN {central(getCenterESClients(<<"sls-*">>))}
    ELSE IF origin = "dice"
    THEN {fallBack(o) : o \in getESClientsFromLogAnalytics(orgID)}
    ELSE {union(o) : o \in getESClientsFromLogAnalytics(orgID)}

\* lines 69-81: the dispatch on filters["origin"]
byOrigin(orgID, origin) ==
    IF origin = "sls"
    THEN {central(getCenterESClients(<<"sls-*">>))}
    ELSE IF origin = "dice"
    THEN {fallBack(o) : o \in getESClientsFromLogAnalytics(orgID)}
    ELSE IF origin # ""
    THEN {central(getCenterESClients(<<"__not-exist__*">>))}
    ELSE {union(o) : o \in getESClientsFromLogAnalytics(orgID)}

\* getESClients with a fault: the origin filter is looked at before the scope
getESClients_OriginFirst(orgID, req) ==
    LET filters == rangeFilters(req.Filters, 1, [k \in {} |-> ""]) IN
    IF MapIndex(filters, "origin") # ""
    THEN byOrigin(orgID, MapIndex(filters, "origin"))
    ELSE IF Len(req.ClusterName) > 0 \/ Len(req.Addon) > 0
    THEN IF incompleteScope(req)
         THEN {central(<<>>)}
         ELSE getESClientsFromLogAnalyticsByCluster(
                  orgID, ReplaceAll(req.Addon, "*", ""), <<req.ClusterName>>)
    ELSE byOrigin(orgID, "")

getESClients(orgID, req) ==
    IF Len(req.ClusterName) > 0 \/ Len(req.Addon) > 0
    THEN IF incompleteScope(req)
         THEN {central(<<>>)}
         ELSE getESClientsFromLogAnalyticsByCluster(
                  orgID, ReplaceAll(req.Addon, "*", ""), <<req.ClusterName>>)
    ELSE LET filters == rangeFilters(req.Filters, 1, [k \in {} |-> ""]) IN
         byOrigin(orgID, MapIndex(filters, "origin"))

-----------------------------------------------------------------------------
(* The state machine: one operation is invoked on the provider *)

\* the request names both a cluster and an addon
Scoped(req) == req.ClusterName # "" /\ req.Addon # ""

CentralHandles == {client, backClient}

NoCall == [op |-> "none"]

\* httpserver.Endpoint
Endpoint(path, method, handler) == [Path |-> path, Method |-> method, Handler |-> handler]

\* Endpoints.Routes(): the route table of kms; a handler is named by the
\* method of Endpoints it is
Routes ==
    << Endpoint("/health", "GET", "Health"),
       Endpoint("/api/kms", "POST", "KmsCreateKey"),
       Endpoint("/api/kms/encrypt", "POST", "KmsEncrypt"),
       Endpoint("/api/kms/decrypt", "POST", "KmsDecrypt"),
       Endpoint("/api/kms/generate-data-key", "POST", "KmsGenerateDataKey"),
       Endpoint("/api/kms/rotate-key-version", "POST", "KmsRotateKeyVersion"),
       Endpoint("/api/kms/describe-key", "GET", "KmsRotateKeyVersion") >>

\* the nil error
Nil == "<nil>"

\* the goroutines of the provisioning controller that call Provision
Goroutines == {"g1", "g2"}

\* a goroutine that is not in Provision
Idle == [pc |-> "idle", options |-> <<>>, in |-> "", mountPath |-> "", err |-> Nil,
         volPathOnHost |-> "", volPath |-> ""]

\* no handle but the two of the provider has been handed out
NoneIssued == [central |-> {}, deployment |-> {}]

Init ==
    /\ QueryBackES \in BOOLEAN
    /\ created = 0
    /\ call = NoCall
    /\ issued = NoneIssued
    /\ hostPathOnce = "new"
    /\ hostPathErr = Nil
    /\ hostPathVolumePrefixInContainer = ""
    /\ discovered = <<>>
    /\ provision = [g \in Goroutines |-> Idle]
    /\ provisions = 0
    /\ routes = Routes
    /\ served = <<>>

\* a log query resolves its clients
GetESClients ==
    /\ call = NoCall
    /\ \E orgID \in OrgIDs, req \in Requests :
         \E o \in getESClients(orgID, req) :
            /\ call' = [op |-> "getESClients", orgID |-> orgID, req |-> req, out |-> o]
            /\ created' = o.created
    /\ UNCHANGED <<QueryBackES, issued, lvVars, kmsVars>>

\* the deployment lookup is invoked for an addon and a list of clusters
GetESClientsFromLogAnalyticsByCluster ==
    /\ call = NoCall
    /\ \E orgID \in OrgIDs, addon \in {"", "a"}, clusterNames \in ClusterLists :
         \E o \in getESClientsFromLogAnalyticsByCluster(orgID, addon, clusterNames) :
            /\ call' = [op |-> "getESClientsFromLogAnalyticsByCluster", orgID |-> orgID,
                        addon |-> addon, clusterNames |-> clusterNames, out |-> o]
            /\ created' = o.created
    /\ UNCHANGED <<QueryBackES, issued, lvVars, kmsVars>>

\* the central clients are requested for a list of index patterns
GetCenterESClients ==
    /\ call = NoCall
    /\ \E indices \in SeqsUpTo({"sls-*", "rlogs-*", "__not-exist__*"}, MaxPatterns) :
         call' = [op |-> "getCenterESClients", indices |-> indices,
                  ret |-> getCenterESClients(indices)]
    /\ UNCHANGED <<QueryBackES, created, issued, lvVars, kmsVars>>

\* the index namer is invoked
GetLogIndices ==
    /\ call = NoCall
    /\ \E prefix \in {"rlogs-", "spotlogs-"}, orgId \in {"", "42", "7"},
          addons \in SeqsUpTo(GroupKeys, MaxAddons) :
         call' = [op |-> "getLogIndices", prefix |-> prefix, orgId |-> orgId,
                  addons |-> addons, ret |-> getLogIndices(prefix, orgId, addons)]
    /\ UNCHANGED <<QueryBackES, created, issued, lvVars, kmsVars>>

Next ==
    \/ GetESClients
    \/ GetESClientsFromLogAnalyticsByCluster
    \/ GetCenterESClients
    \/ GetLogIndices

Spec == Init /\ [][Next]_vars

-----------------------------------------------------------------------------
(* A sequence of log queries on one provider: each query resolves its      *)
(* clients and returns them before the next one starts.                    *)

\* the requests of the queries of a sequence
SequenceRequests ==
    { r \in Requests :
        /\ r.Addon \in {"", "a"}
        /\ (r.ClusterName # "") = (r.Addon # "")
        /\ r.Filters \in {<<>>, <<[Key |-> "origin", Value |-> "dice"]>>}
        /\ Scoped(r) => r.Filters = <<>> }

\* one more log query resolves its clients
GetESClientsInSequence ==
    /\ call = NoCall
    /\ created < MaxCreated
    /\ \E req \in SequenceRequests :
         \E o \in getESClients(42, req) :
            /\ call' = [op |-> "getESClients", orgID |-> 42, req |-> req, out |-> o]
            /\ created' = o.created
    /\ UNCHANGED <<QueryBackES, issued, lvVars, kmsVars>>

\* getESClients returns: the caller holds the clients and their handles
Return ==
    /\ call.op = "getESClients"
    /\ LET clients == call.out.clients
             C == {i \in DOMAIN clients : clients[i].Client \in CentralHandles}
         IN issued' = [central |-> issued.central \cup {clients[i].Client : i \in C},
                       deployment |-> issued.deployment
                                         \cup {clients[i].Client : i \in DOMAIN clients \ C}]
    /\ call' = NoCall
    /\ UNCHANGED <<QueryBackES, created, lvVars, kmsVars>>

NextInSequence ==
    \/ GetESClientsInSequence
    \/ Return

SpecSequence == Init /\ [][NextInSequence]_vars

-----------------------------------------------------------------------------
(* The local volume provisioner (package localvolume): goroutines of the   *)
(* provisioning controller call Provision concurrently; the mount point is *)
(* discovered under a sync.Once shared by the whole process.               *)

RECURSIVE Clean(_)
\* s with every run of '/' reduced to one
Clean(s) ==
    IF Len(s) < 2 THEN s
    ELSE IF SubSeq(s, 1, 2) = "//" THEN Clean(SubSeq(s, 2, Len(s)))
    ELSE SubSeq(s, 1, 1) \o Clean(SubSeq(s, 2, Len(s)))

RECURSIVE JoinFrom(_, _)
JoinFrom(segs, i) ==
    IF i > Len(segs) THEN ""
    ELSE IF i = Len(segs) THEN segs[i]
    ELSE segs[i] \o "/" \o JoinFrom(segs, i + 1)

\* strutil.JoinPath: the segments joined by '/', without doubled '/'
JoinPath(segs) == Clean(JoinFrom(segs, 1))

\* strutil.TrimPrefixes(s, prefix)
TrimPrefixes(s, prefix) ==
    IF Len(s) >= Len(prefix) /\ SubSeq(s, 1, Len(prefix)) = prefix
    THEN SubSeq(s, Len(prefix) + 1, Len(s))
    ELSE s

\* DiscoverMountPoint(): the mount point of the host file system, or an error
DiscoverMountPoint ==
    { [mountpoint |-> "/hostfs/data", err |-> Nil],
      [mountpoint |-> "", err |-> "mount point not found"] }

\* the parameters of a storage class: none (a nil map), a hostpath, an empty
\* hostpath
StorageClassParameters ==
    { [k \in {} |-> ""], [k \in {"hostpath"} |-> "/data"], [k \in {"hostpath"} |-> ""] }

ProvisionOptions ==
    [SelectedNode : {<<>>, <<"node1">>}, Parameters : StorageClassParameters,
     PVName : {"pv1"}]

\* line 131: the storage class names a host path
hasHostPath(options) == MapIndex(options.Parameters, "hostpath") # ""

\* onceRuns with a fault: discovery is run again after a failure
onceRuns_RetryOnError(once, err) == once = "new" \/ (once = "done" /\ err # Nil)

\* line 134: hostPathOnce.Do runs its function in the first call only
onceRuns(once, err) == once = "new"

\* lines 48-55: a goroutine calls Provision; without a selected node the call
\* fails at once
Provision(g) ==
    /\ provision[g].pc = "idle"
    /\ provisions < MaxProvisions
    /\ provisions' = provisions + 1
    /\ \E options \in ProvisionOptions :
         provision' = [provision EXCEPT ![g] =
            IF options.SelectedNode = <<>>
            THEN [Idle EXCEPT !.pc = "returned", !.options = options,
                              !.err = "Not provide selectedNode in provisionOptions"]
            ELSE [Idle EXCEPT !.pc = "find", !.options = options,
                              !.in = "volumeRealPath"]]
    /\ UNCHANGED <<hostPathOnce, hostPathErr, hostPathVolumePrefixInContainer, discovered>>
    /\ UNCHANGED <<esVars, kmsVars>>

\* lines 130-134: findLocalVolumeMountedPath up to hostPathOnce.Do, where the
\* goroutine waits while another one is running the discovery
FindLocalVolumeMountedPath(g) ==
    /\ provision[g].pc = "find"
    /\ IF hasHostPath(provision[g].options)
       THEN /\ provision' = [provision EXCEPT
                    ![g].pc = "found",
                    ![g].mountPath =
                        JoinPath(<<"/hostfs", provision[g].options.Parameters["hostpath"]>>),
                    ![g].err = Nil]
            /\ UNCHANGED hostPathOnce
       ELSE IF onceRuns(hostPathOnce, hostPathErr)
       THEN /\ hostPathOnce' = "running"
            /\ provision' = [provision EXCEPT ![g].pc = "discover"]
       ELSE /\ hostPathOnce = "done"
            /\ provision' = [provision EXCEPT ![g].pc = "read"]
            /\ UNCHANGED hostPathOnce
    /\ UNCHANGED <<hostPathErr, hostPathVolumePrefixInContainer, discovered, provisions>>
    /\ UNCHANGED <<esVars, kmsVars>>

\* lines 135-140: the function of hostPathOnce.Do
Discover(g) ==
    /\ provision[g].pc = "discover"
    /\ \E d \in DiscoverMountPoint :
         /\ hostPathErr' = IF d.err # Nil THEN d.err ELSE hostPathErr
         /\ hostPathVolumePrefixInContainer' = d.mountpoint
         /\ discovered' = Append(discovered, d)
    /\ hostPathOnce' = "done"
    /\ provision' = [provision EXCEPT ![g].pc = "read"]
    /\ UNCHANGED <<provisions, esVars, kmsVars>>

\* line 141: return hostPathVolumePrefixInContainer, hostPathErr
ReadMountPoint(g) ==
    /\ provision[g].pc = "read"
    /\ provision' = [provision EXCEPT ![g].pc = "found",
                                       ![g].mountPath = hostPathVolumePrefixInContainer,
                                       ![g].err = hostPathErr]
    /\ UNCHANGED <<hostPathOnce, hostPathErr, hostPathVolumePrefixInContainer,
                   discovered, provisions, esVars, kmsVars>>

\* lines 56-63 with volumeRealPath (122-128) and volumePath (114-120): the
\* caller of findLocalVolumeMountedPath goes on with what it returned
VolumePath(g) ==
    /\ provision[g].pc = "found"
    /\ LET c == provision[g] IN
       provision' = [provision EXCEPT ![g] =
          IF c.err # Nil THEN [c EXCEPT !.pc = "returned"]
          ELSE IF c.in = "volumeRealPath"
          THEN [c EXCEPT !.pc = "find", !.in = "volumePath",
                         !.volPathOnHost =
                            JoinPath(<<"/", TrimPrefixes(c.mountPath, "/hostfs"),
                                       "localvolume", c.options.PVName>>)]
          ELSE [c EXCEPT !.pc = "mkdir",
                         !.volPath = JoinPath(<<c.mountPath, "localvolume",
                                                c.options.PVName>>)]]
    /\ UNCHANGED <<hostPathOnce, hostPathErr, hostPathVolumePrefixInContainer,
                   discovered, provisions, esVars, kmsVars>>

\* lines 64-105: the directory is made on the node, and the volume returned
OnNodesPods(g) ==
    /\ provision[g].pc = "mkdir"
    /\ \E err \in {Nil, "mkdir failed"} :
         provision' = [provision EXCEPT ![g].pc = "returned", ![g].err = err]
    /\ UNCHANGED <<hostPathOnce, hostPathErr, hostPathVolumePrefixInContainer,
                   discovered, provisions, esVars, kmsVars>>

\* the controller takes the result of the call
ProvisionReturn(g) ==
    /\ provision[g].pc = "returned"
    /\ provision' = [provision EXCEPT ![g] = Idle]
    /\ UNCHANGED <<hostPathOnce, hostPathErr, hostPathVolumePrefixInContainer,
                   discovered, provisions, esVars, kmsVars>>

NextProvision ==
    \/ \E g \in Goroutines : Provision(g)
    \/ \E g \in Goroutines : FindLocalVolumeMountedPath(g)
    \/ \E g \in Goroutines : Discover(g)
    \/ \E g \in Goroutines : ReadMountPoint(g)
    \/ \E g \in Goroutines : VolumePath(g)
    \/ \E g \in Goroutines : OnNodesPods(g)
    \/ \E g \in Goroutines : ProvisionReturn(g)

SpecProvision == Init /\ [][NextProvision]_vars

-----------------------------------------------------------------------------
(* The HTTP server of kms: the routes of Endpoints.Routes() are registered *)
(* when the server is built, and every request is dispatched by method and *)
(* path.                                                                   *)

Methods == {"GET", "POST"}

\* the paths requested: those of the table, and one that is not in it
Paths == {Routes[i].Path : i \in DOMAIN Routes} \cup {"/api/kms/unknown"}

\* the handler the server runs for a request: that of the first route
\* registered for the method and the path, none without such a route
Dispatch(table, method, path) ==
    LET I == {i \in DOMAIN table : table[i].Method = method /\ table[i].Path = path} IN
    IF I = {} THEN "NotFound"
    ELSE table[CHOOSE i \in I : \A j \in I : i <= j].Handler

\* the server dispatches one request
ServeHTTP ==
    /\ Len(served) < MaxRequests
    /\ \E method \in Methods, path \in Paths :
         served' = Append(served, [Method |-> method, Path |-> path,
                                   Handler |-> Dispatch(routes, method, path)])
    /\ UNCHANGED <<routes, esVars, lvVars>>

NextRoutes == ServeHTTP

SpecRoutes == Init /\ [][NextRoutes]_vars

-----------------------------------------------------------------------------
(* Vocabulary of the properties *)

IsGetESClients == call.op = "getESClients"

\* the request names neither a cluster nor an addon
Unscoped(req) == req.ClusterName = "" /\ req.Addon = ""

\* the value of the last filter item with this key, "" when there is none
LastValue(items, key) ==
    LET I == {i \in DOMAIN items : items[i].Key = key} IN
    IF I = {} THEN "" ELSE items[CHOOSE i \in I : \A j \in I : j <= i].Value

\* only clients of the central cluster, at least one, each scoped to pattern
OnlyCentral(clients, pattern) ==
    /\ Len(clients) >= 1
    /\ \A i \in DOMAIN clients :
         /\ clients[i].Client \in CentralHandles
         /\ clients[i].Indices = <<pattern>>

Lookups(lookups, fn) == SelectSeq(lookups, LAMBDA l : l.fn = fn)

\* the rows of the deployment query of the call
Batch(lookups) ==
    LET q == Lookups(lookups, "QueryByOrgIDAndClusters") IN
    IF q = <<>> THEN <<>> ELSE q[1].ret

\* the k-th smallest element of a set of numbers
Kth(I, k) == CHOOSE i \in I : Cardinality({j \in I : j <= i}) = k

\* the rows for which a client was built: the k-th row with a connection URL
\* is the one the k-th call of elastic.NewClient is made for
BuiltRows(lookups) ==
    LET rows == SelectSeq(Batch(lookups), LAMBDA d : d.ESURL # "")
        ncs == Lookups(lookups, "elastic.NewClient")
        I == {i \in DOMAIN ncs : ~ncs[i].err}
    IN [k \in 1..Cardinality(I) |-> rows[Kth(I, k)]]

\* clients are the clients of the rows built by the call, in row order, each
\* with a handle of its own
DeploymentClients(clients, out) ==
    LET rows == BuiltRows(out.lookups) IN
    /\ Len(clients) = Len(rows)
    /\ \A k \in DOMAIN clients :
         /\ clients[k].URLs = rows[k].ESURL
         /\ clients[k].Client = Handle(out.created - Len(rows) + k)
         /\ clients[k].Client \notin CentralHandles

-----------------------------------------------------------------------------
(* C1: a request with exactly one of cluster name and addon gets zero      *)
(* clients, whatever the org id and the filters, and no lookup is made.    *)
C1_IncompleteScopeYieldsNothing ==
    (IsGetESClients /\ ((call.req.ClusterName # "") # (call.req.Addon # "")))
        => (call.out.clients = <<>> /\ call.out.lookups = <<>>)

C1_Witness ==
    /\ IsGetESClients
    /\ call.req.ClusterName = "c1" /\ call.req.Addon = ""
    /\ call.req.Filters = <<[Key |-> "origin", Value |-> "sls"]>>
    /\ call.out.clients = <<>>

(* C2 as stated: a request whose filters contain origin=sls gets only the  *)
(* central clients scoped to sls-*, regardless of the other fields.        *)
C2_SlsRegardlessOfOtherFields ==
    (IsGetESClients
        /\ \E i \in DOMAIN call.req.Filters :
              call.req.Filters[i] = [Key |-> "origin", Value |-> "sls"])
        => OnlyCentral(call.out.clients, "sls-*")

(* C2 amended: a request without cluster name and addon whose last origin  *)
(* filter is sls gets only the central clients, each scoped to exactly     *)
(* sls-*, whatever the org id and the other filters; no lookup is made.    *)
C2_SlsWhenUnscoped ==
    (IsGetESClients /\ Unscoped(call.req)
        /\ LastValue(call.req.Filters, "origin") = "sls")
        => (OnlyCentral(call.out.clients, "sls-*") /\ call.out.lookups = <<>>)

C2_Witness ==
    /\ IsGetESClients /\ Unscoped(call.req)
    /\ call.req.Filters = <<[Key |-> "origin", Value |-> "dice"],
                            [Key |-> "origin", Value |-> "sls"]>>
    /\ OnlyCentral(call.out.clients, "sls-*")

(* C3: with origin=dice and no cluster name or addon, a call that resolves *)
(* at least one deployment returns exactly the deployment clients, in row  *)
(* order, and no central client; when the organization has no deployment   *)
(* rows the call returns the central clients scoped to rlogs-*.            *)
C3_DiceDeploymentsOrFallback ==
    (IsGetESClients /\ Unscoped(call.req)
        /\ LastValue(call.req.Filters, "origin") = "dice")
        => /\ BuiltRows(call.out.lookups) # <<>>
                => DeploymentClients(call.out.clients, call.out)
           /\ (\E i \in DOMAIN call.out.lookups :
                 /\ call.out.lookups[i].fn = "QueryByOrgIDAndClusters"
                 /\ ~call.out.lookups[i].err
                 /\ call.out.lookups[i].ret = <<>>)
                => OnlyCentral(call.out.clients, "rlogs-*")

C3_Witness ==
    /\ IsGetESClients /\ Unscoped(call.req)
    /\ LastValue(call.req.Filters, "origin") = "dice"
    /\ Len(call.out.lookups) = 2
    /\ ~call.out.lookups[1].err /\ call.out.lookups[1].ret # <<>>
    /\ ~call.out.lookups[2].err /\ call.out.lookups[2].ret = <<>>
    /\ OnlyCentral(call.out.clients, "rlogs-*")

(* C4: with an origin other than sls and dice (and not empty) and no       *)
(* cluster name or addon, the call returns only central clients scoped to  *)
(* __not-exist__* and makes no lookup.                                     *)
C4_UnknownOriginMatchesNothing ==
    (IsGetESClients /\ Unscoped(call.req)
        /\ LastValue(call.req.Filters, "origin") \notin {"", "sls", "dice"})
        => (OnlyCentral(call.out.clients, "__not-exist__*") /\ call.out.lookups = <<>>)

C4_Witness ==
    /\ IsGetESClients /\ Unscoped(call.req)
    /\ LastValue(call.req.Filters, "origin") = "unknown-value"
    /\ OnlyCentral(call.out.clients, "__not-exist__*")

(* C5: with no origin (absent or empty) and no cluster name or addon, the  *)
(* call returns the central clients scoped to sls-* followed by all the    *)
(* deployment clients in row order; nothing is dropped: the length is the  *)
(* number of central clients plus the number of deployment clients.        *)
C5_UnionWithoutOrigin ==
    (IsGetESClients /\ Unscoped(call.req)
        /\ LastValue(call.req.Filters, "origin") = "")
        => LET n == IF QueryBackES THEN 2 ELSE 1
               clients == call.out.clients
           IN /\ Len(clients) = n + Len(BuiltRows(call.out.lookups))
              /\ OnlyCentral(SubSeq(clients, 1, n), "sls-*")
              /\ DeploymentClients(SubSeq(clients, n + 1, Len(clients)), call.out)

C5_Witness ==
    /\ IsGetESClients /\ Unscoped(call.req)
    /\ call.req.Filters = <<[Key |-> "origin", Value |-> ""]>>
    /\ QueryBackES
    /\ Len(call.out.clients) = 4
    /\ call.out.clients[3].URLs # call.out.clients[4].URLs

(* C6: getLogIndices with n >= 1 addon keys returns exactly 2n patterns:  *)
(* for the i-th key, in input order, prefix+key then prefix+key+"-*"; the  *)
(* org scope is ignored and a repeated key is emitted again.               *)
C6_TwoPatternsPerAddon ==
    (call.op = "getLogIndices" /\ Len(call.addons) > 0)
        => /\ Len(call.ret) = 2 * Len(call.addons)
           /\ \A i \in DOMAIN call.addons :
                /\ call.ret[2 * i - 1] = call.prefix \o call.addons[i]
                /\ call.ret[2 * i] = call.prefix \o call.addons[i] \o "-*"
           /\ (call.prefix = "rlogs-" /\ call.addons = <<"a", "b">>)
                => call.ret = <<"rlogs-a", "rlogs-a-*", "rlogs-b", "rlogs-b-*">>

C6_Witness ==
    /\ call.op = "getLogIndices"
    /\ call.prefix = "rlogs-" /\ call.orgId = "42" /\ call.addons = <<"a", "b", "a">>
    /\ call.ret = <<"rlogs-a", "rlogs-a-*", "rlogs-b", "rlogs-b-*", "rlogs-a", "rlogs-a-*">>

(* C7: getLogIndices without addon keys returns exactly one pattern: the   *)
(* exact name prefix+orgId when the org scope is not empty, the wildcard   *)
(* prefix+"*" when it is.                                                  *)
C7_OnePatternWithoutAddons ==
    (call.op = "getLogIndices" /\ call.addons = <<>>)
        => /\ call.orgId # "" => call.ret = <<call.prefix \o call.orgId>>
           /\ call.orgId = "" => call.ret = <<call.prefix \o "*">>
           /\ (call.prefix = "rlogs-" /\ call.orgId = "42") => call.ret = <<"rlogs-42">>
           /\ (call.prefix = "rlogs-" /\ call.orgId = "") => call.ret = <<"rlogs-*">>

C7_Witness ==
    /\ call.op = "getLogIndices"
    /\ call.prefix = "rlogs-" /\ call.orgId = "42" /\ call.addons = <<>>
    /\ call.ret = <<"rlogs-42">>

(* C8: in getESClientsFromLogAnalyticsByCluster a row without connection   *)
(* URL yields no client and leaves the other rows alone: the outcome is an *)
(* outcome of the same batch without the rows that have no URL.            *)
C8_EmptyURLRowsAreSkipped ==
    (call.op = "getESClientsFromLogAnalyticsByCluster" /\ ~call.out.lookups[1].err)
        => LET q == call.out.lookups[1]
               kept == SelectSeq(q.ret, LAMBDA d : d.ESURL # "")
               before == call.out.created - Len(call.out.clients)
           IN /\ \A i \in DOMAIN call.out.clients : call.out.clients[i].URLs # ""
              /\ \E db \in LogInstanceDB(call.addon) :
                    call.out \in rangeList(kept, 1, call.addon, db,
                                           Outcome(<<>>, <<q>>, before))

C8_Witness ==
    /\ call.op = "getESClientsFromLogAnalyticsByCluster"
    /\ ~call.out.lookups[1].err
    /\ Len(call.out.lookups[1].ret) = 2
    /\ call.out.lookups[1].ret[1].ESURL = ""
    /\ call.out.lookups[1].ret[2].ESURL # ""
    /\ Len(call.out.clients) = 1
    /\ call.out.clients[1].URLs = call.out.lookups[1].ret[2].ESURL

(* C9: every client getESClients returns, central or of a deployment, has  *)
(* at least one index pattern and a connection URL string that is not      *)
(* empty.                                                                  *)
C9_ClientsHavePatternAndURL ==
    IsGetESClients
        => \A i \in DOMAIN call.out.clients :
              /\ Len(call.out.clients[i].Indices) >= 1
              /\ Len(call.out.clients[i].URLs) > 0

C9_Witness ==
    /\ IsGetESClients
    /\ call.req.ClusterName = "c1" /\ call.req.Addon = "a"
    /\ \E i \in DOMAIN call.out.lookups :
          /\ call.out.lookups[i].fn = "GetListByClusterAndProjectIdAndWorkspace"
          /\ call.out.lookups[i].ret = <<>>
    /\ Len(call.out.clients) = 2
    /\ \A i \in DOMAIN call.out.clients : Len(call.out.clients[i].Indices) = 1

(* C10: getCenterESClients returns, with the dual-read flag on, exactly    *)
(* the primary and then the back reader, both with the pattern list given; *)
(* with the flag off exactly the primary with that pattern list.           *)
C10_CentralPairOrPrimary ==
    call.op = "getCenterESClients"
        => /\ QueryBackES =>
                /\ Len(call.ret) = 2
                /\ call.ret[1].Client = client /\ call.ret[2].Client = backClient
                /\ call.ret[1].Indices = call.indices
                /\ call.ret[2].Indices = call.indices
           /\ ~QueryBackES =>
                /\ Len(call.ret) = 1
                /\ call.ret[1].Client = client
                /\ call.ret[1].Indices = call.indices

C10_Witness ==
    /\ call.op = "getCenterESClients"
    /\ QueryBackES
    /\ call.indices = <<"sls-*", "rlogs-*">>
    /\ Len(call.ret) = 2
    /\ call.ret[2].Client = backClient

\* the lookups answered by the cluster registry and the persistence layer
PersistenceLookups ==
    {"ListClusters", "QueryByOrgIDAndClusters", "GetByLogKey",
     "GetListByClusterAndProjectIdAndWorkspace"}

IsResolution ==
    call.op \in {"getESClients", "getESClientsFromLogAnalyticsByCluster"}

\* the clients of deployments among clients
OfDeployments(clients) == SelectSeq(clients, LAMBDA c : c.Client \notin CentralHandles)

(* C11: when any lookup of a resolution (cluster list, deployment query,   *)
(* instance by addon key, instances by cluster/project/workspace) answers  *)
(* with an error, the resolution of that scope returns zero clients: the   *)
(* call returns no client of a deployment.                                 *)
C11_LookupErrorYieldsNothing ==
    (IsResolution
        /\ \E i \in DOMAIN call.out.lookups :
              /\ call.out.lookups[i].fn \in PersistenceLookups
              /\ call.out.lookups[i].err)
        => OfDeployments(call.out.clients) = <<>>

NoStar(s) == \A k \in 1..Len(s) : SubSeq(s, k, k) # "*"

(* C13: a request with both a cluster name and an addon gets, whatever its *)
(* origin filter, exactly the result of the deployment lookup for the org  *)
(* id, the addon without its '*' characters and that one cluster: the only *)
(* deployment query is for that cluster, the cluster list is not asked, no *)
(* central client is returned.                                             *)
C13_ScopedIsDeploymentLookup ==
    (IsGetESClients /\ Scoped(call.req))
        => LET out == call.out
               q == out.lookups[1]
               addon == ReplaceAll(call.req.Addon, "*", "")
               before == out.created - Len(out.clients)
           IN /\ out.lookups # <<>>
              /\ q.fn = "QueryByOrgIDAndClusters"
              /\ q.args = <<call.orgID, <<call.req.ClusterName>>>>
              /\ Len(Lookups(out.lookups, "QueryByOrgIDAndClusters")) = 1
              /\ Lookups(out.lookups, "ListClusters") = <<>>
              /\ \A i \in DOMAIN out.lookups :
                    out.lookups[i].fn = "GetByLogKey"
                        => /\ NoStar(out.lookups[i].args[1])
                           /\ call.req.Addon = "a*" => out.lookups[i].args = <<"a">>
              /\ call.req.Addon = "*" => Lookups(out.lookups, "GetByLogKey") = <<>>
              /\ \A i \in DOMAIN out.clients : out.clients[i].Client \notin CentralHandles
              /\ DeploymentClients(out.clients, out)
              /\ \/ q.err /\ out.clients = <<>>
                 \/ /\ ~q.err
                    /\ \E db \in LogInstanceDB(addon) :
                          out \in rangeList(q.ret, 1, addon, db, Outcome(<<>>, <<q>>, before))

C13_Witness ==
    /\ IsGetESClients
    /\ call.req.ClusterName = "c1" /\ call.req.Addon = "a*"
    /\ call.req.Filters = <<[Key |-> "origin", Value |-> "sls"]>>
    /\ Len(call.out.clients) = 2
    /\ \E i \in DOMAIN call.out.lookups : call.out.lookups[i].fn = "GetByLogKey"

IsByCluster == call.op = "getESClientsFromLogAnalyticsByCluster"

(* C14: in getESClientsFromLogAnalyticsByCluster a failed construction of  *)
(* a client skips that row alone: a construction is attempted for every    *)
(* row with a connection URL, and the clients returned are those of the    *)
(* rows whose construction succeeded, before and after the failed one, in  *)
(* row order.                                                              *)
C14_FailedRowAloneIsSkipped ==
    (IsByCluster
        /\ \E i \in DOMAIN call.out.lookups :
              call.out.lookups[i].fn = "elastic.NewClient" /\ call.out.lookups[i].err)
        => LET rows == SelectSeq(Batch(call.out.lookups), LAMBDA d : d.ESURL # "")
               ncs == Lookups(call.out.lookups, "elastic.NewClient")
           IN /\ Len(ncs) = Len(rows)
              /\ \A k \in DOMAIN ncs : ncs[k].args.URL = Split(rows[k].ESURL, ",")
              /\ Len(call.out.clients) = Cardinality({k \in DOMAIN ncs : ~ncs[k].err})
              /\ DeploymentClients(call.out.clients, call.out)

\* the first row fails, the row after it is still built
C14_Witness ==
    /\ IsByCluster
    /\ LET ncs == Lookups(call.out.lookups, "elastic.NewClient") IN
         /\ Len(ncs) = 2 /\ ncs[1].err /\ ~ncs[2].err
         /\ Len(call.out.clients) = 1
         /\ call.out.clients[1].URLs = Batch(call.out.lookups)[2].ESURL
         /\ Batch(call.out.lookups)[1].ESURL # Batch(call.out.lookups)[2].ESURL

\* the keys of instances, each once, in the order of first occurrence
FirstSeenKeys(instances) ==
    LET I == {i \in DOMAIN instances :
                \A j \in 1..(i - 1) : instances[j].LogKey # instances[i].LogKey}
    IN [k \in 1..Cardinality(I) |-> instances[Kth(I, k)].LogKey]

\* for each key in order: prefix+key, then prefix+key+"-*"
PatternPairs(prefix, keys) ==
    [n \in 1..(2 * Len(keys)) |->
        IF n % 2 = 1 THEN prefix \o keys[(n + 1) \div 2]
        ELSE prefix \o keys[n \div 2] \o "-*"]

\* the index prefix that goes with the log version of a deployment client
PrefixOf(c) == IF c.LogVersion = LogVersion2 THEN "rlogs-" ELSE "spotlogs-"

(* C15: in a deployment lookup for an addon, when the instance with that   *)
(* key is found, the addon list of every client is the keys of the         *)
(* instances listed for its (cluster, project, workspace), each key once,  *)
(* in first-seen order, and the listing is asked for the cluster, project  *)
(* and workspace of the instance found; when the key is not found, the     *)
(* addon list is the supplied addon alone.  The addon list of a client is  *)
(* read from its index patterns, two per key.                              *)
C15_SiblingGroupExpansion ==
    (IsByCluster /\ call.addon # "")
        => LET out == call.out
               byKey == Lookups(out.lookups, "GetByLogKey")
               group == Lookups(out.lookups, "GetListByClusterAndProjectIdAndWorkspace")
           IN /\ \A i \in DOMAIN byKey : byKey[i].args = <<call.addon>>
              /\ (byKey # <<>> /\ ~byKey[1].err /\ byKey[1].ret # <<>>)
                    => /\ group # <<>>
                       /\ group[1].args = <<byKey[1].ret[1].ClusterName,
                                            byKey[1].ret[1].ProjectId,
                                            byKey[1].ret[1].Workspace>>
                       /\ (~group[1].err /\ group[1].ret # <<>>)
                             => \A k \in DOMAIN out.clients :
                                  out.clients[k].Indices =
                                     PatternPairs(PrefixOf(out.clients[k]),
                                                  FirstSeenKeys(group[1].ret))
              /\ (byKey # <<>> /\ ~byKey[1].err /\ byKey[1].ret = <<>>)
                    => /\ group = <<>>
                       /\ \A k \in DOMAIN out.clients :
                             out.clients[k].Indices =
                                PatternPairs(PrefixOf(out.clients[k]), <<call.addon>>)

\* the listing names b twice: the client is scoped to b once
C15_Witness ==
    /\ IsByCluster /\ call.addon = "a"
    /\ \E i \in DOMAIN call.out.lookups :
          /\ call.out.lookups[i].fn = "GetListByClusterAndProjectIdAndWorkspace"
          /\ Len(call.out.lookups[i].ret) = 2
          /\ call.out.lookups[i].ret[1].LogKey = "b"
          /\ call.out.lookups[i].ret[2].LogKey = "b"
    /\ Len(call.out.clients) >= 1
    /\ call.out.clients[1].Indices = <<"rlogs-b", "rlogs-b-*">>

\* s starts with p
HasPrefix(s, p) == Len(s) >= Len(p) /\ SubSeq(s, 1, Len(p)) = p

\* client c has version 2.0.0 and only rlogs- patterns
IsV2(c) ==
    /\ c.LogVersion = LogVersion2
    /\ \A i \in DOMAIN c.Indices : HasPrefix(c.Indices[i], "rlogs-")

\* client c has version 1.0.0 and only spotlogs- patterns
IsV1(c) ==
    /\ c.LogVersion = LogVersion1
    /\ \A i \in DOMAIN c.Indices : HasPrefix(c.Indices[i], "spotlogs-")

\* s has a character that is not white space
HasNonSpace(s) == \E k \in 1..Len(s) : ~IsSpace(SubSeq(s, k, k))

(* C16 as stated: a deployment client has version 2.0.0 and prefix rlogs-  *)
(* exactly when its deployment has a non-empty collector URL or the log    *)
(* type log-service, and version 1.0.0 and prefix spotlogs- otherwise.     *)
C16_V2WhenCollectorNotEmpty ==
    IsByCluster
        => LET rows == BuiltRows(call.out.lookups) IN
           /\ Len(call.out.clients) = Len(rows)
           /\ \A k \in DOMAIN call.out.clients :
                IF Len(rows[k].CollectorURL) > 0 \/ rows[k].LogType = LogTypeLogService
                THEN IsV2(call.out.clients[k])
                ELSE IsV1(call.out.clients[k])

(* C16 amended: a deployment client has version 2.0.0 and prefix rlogs-    *)
(* exactly when the collector URL of its deployment, with the surrounding  *)
(* white space trimmed, is not empty or the log type is log-service, and   *)
(* version 1.0.0 and prefix spotlogs- otherwise; the two are never mixed.  *)
C16_V2WhenTrimmedCollectorNotEmpty ==
    IsByCluster
        => LET rows == BuiltRows(call.out.lookups) IN
           /\ Len(call.out.clients) = Len(rows)
           /\ \A k \in DOMAIN call.out.clients :
                /\ IF HasNonSpace(rows[k].CollectorURL)
                      \/ rows[k].LogType = LogTypeLogService
                   THEN IsV2(call.out.clients[k])
                   ELSE IsV1(call.out.clients[k])
                /\ IsV1(call.out.clients[k]) # IsV2(call.out.clients[k])

\* a deployment whose collector URL is one blank gets version 1.0.0
C16_Witness ==
    /\ IsByCluster
    /\ LET rows == BuiltRows(call.out.lookups) IN
         /\ Len(rows) = 2 /\ Len(call.out.clients) = 2
         /\ rows[1].CollectorURL = "http://c" /\ IsV2(call.out.clients[1])
         /\ rows[2].CollectorURL = " " /\ rows[2].LogType # LogTypeLogService
         /\ IsV1(call.out.clients[2])

\* the call resolved its deployments without addon keys: no addon was
\* supplied, or the listing of the instance found gave no instance
NoAddonKeys ==
    \/ call.addon = ""
    \/ \E i \in DOMAIN call.out.lookups :
          /\ call.out.lookups[i].fn = "GetListByClusterAndProjectIdAndWorkspace"
          /\ call.out.lookups[i].ret = <<>>

(* C17: a deployment resolved without addon keys has one index pattern:    *)
(* the wildcard prefix+"*" when its log type is log-analytics (the org     *)
(* scope is omitted), prefix+orgId otherwise, orgId being the decimal org  *)
(* id of the deployment.                                                   *)
C17_OrgScopeUnlessLogAnalytics ==
    (IsByCluster /\ NoAddonKeys)
        => LET rows == BuiltRows(call.out.lookups) IN
           /\ Len(call.out.clients) = Len(rows)
           /\ \A k \in DOMAIN call.out.clients :
                LET c == call.out.clients[k] IN
                /\ rows[k].LogType = LogTypeLogAnalytics
                      => c.Indices = <<PrefixOf(c) \o "*">>
                /\ rows[k].LogType # LogTypeLogAnalytics
                      => /\ c.Indices = <<PrefixOf(c) \o rows[k].OrgID>>
                         /\ call.orgID = 42 => c.Indices \in {<<"rlogs-42">>, <<"spotlogs-42">>}
                         /\ call.orgID = 7 => c.Indices \in {<<"rlogs-7">>, <<"spotlogs-7">>}

C17_Witness ==
    /\ IsByCluster /\ call.addon = "" /\ call.orgID = 42
    /\ LET rows == BuiltRows(call.out.lookups) IN
         /\ Len(rows) = 2 /\ Len(call.out.clients) = 2
         /\ rows[1].LogType = LogTypeLogAnalytics
         /\ call.out.clients[1].Indices = <<"spotlogs-*">>
         /\ rows[2].LogType = LogTypeLogService
         /\ call.out.clients[2].Indices = <<"rlogs-42">>

\* handle h is carried by a client of a call that returned
Issued(h) ==
    IF h \in CentralHandles THEN h \in issued.central ELSE h \in issued.deployment

(* C18 as stated: across a sequence of getESClients calls, no handle       *)
(* carried by a client of one call is carried by a client of another call. *)
C18_NoHandleInTwoCalls ==
    IsGetESClients
        => \A i \in DOMAIN call.out.clients : ~Issued(call.out.clients[i].Client)

(* C18 amended: across a sequence of getESClients calls, the handle of a   *)
(* deployment client is carried by no client of another call; the central  *)
(* clients carry the two handles of the provider in every call.            *)
C18_DeploymentHandlesAreFresh ==
    IsGetESClients
        => \A i \in DOMAIN call.out.clients :
              LET c == call.out.clients[i] IN
              IF c.URLs \in {"-", "-b"}
              THEN c.Client = (IF c.URLs = "-" THEN client ELSE backClient)
              ELSE /\ c.Client \notin CentralHandles
                   /\ ~Issued(c.Client)
                   /\ \A j \in DOMAIN call.out.clients :
                         (j # i /\ call.out.clients[j].Client \notin CentralHandles)
                             => call.out.clients[j].Client # c.Client

\* a second call returns a deployment client next to the central client an
\* earlier call returned too
C18_Witness ==
    /\ IsGetESClients
    /\ issued.deployment # {} /\ client \in issued.central
    /\ \E i, j \in DOMAIN call.out.clients :
          /\ call.out.clients[i].Client = client
          /\ call.out.clients[j].Client \notin CentralHandles
          /\ ~Issued(call.out.clients[j].Client)

\* pattern is prefix+key or prefix+key+"-*" for one of the keys
AddonScoped(pattern, keys) ==
    \E prefix \in {"rlogs-", "spotlogs-"}, key \in keys :
        pattern \in {prefix \o key, prefix \o key \o "-*"}

(* C19: for a request with a cluster name and an addon, every index        *)
(* pattern of every client returned is scoped to an addon key (the addon   *)
(* supplied, without its '*' characters, or the key of a sibling           *)
(* instance): prefix+key or prefix+key+"-*"; neither the pattern of the    *)
(* whole organization prefix+orgId nor the match-all prefix+"*" is         *)
(* returned.                                                               *)
C19_ScopedPatternsNameAnAddon ==
    (IsGetESClients /\ Scoped(call.req))
        => \A i \in DOMAIN call.out.clients :
              \A n \in DOMAIN call.out.clients[i].Indices :
                 LET pattern == call.out.clients[i].Indices[n]
                     keys == (GroupKeys \cup {ReplaceAll(call.req.Addon, "*", "")}) \ {""}
                 IN /\ AddonScoped(pattern, keys)
                    /\ pattern \notin {"rlogs-*", "spotlogs-*",
                                       "rlogs-" \o FormatInt(call.orgID),
                                       "spotlogs-" \o FormatInt(call.orgID)}

\* the hostpath parameter of the storage class of a call, "" without one
HostPathOf(c) ==
    IF "hostpath" \in DOMAIN c.options.Parameters
    THEN c.options.Parameters["hostpath"] ELSE ""

\* the call got past the check of the selected node
PastNodeCheck(c) == c.pc # "idle" /\ c.in # ""

(* C20: whatever the interleaving of the calls of Provision,               *)
(* DiscoverMountPoint runs at most once in the life of the process, and    *)
(* only for a call without hostpath parameter; what it gave, mount point   *)
(* and error, is what findLocalVolumeMountedPath returns to every call     *)
(* without hostpath, so after a failure every such call fails with that    *)
(* error and no other discovery is made; a call with a hostpath parameter  *)
(* gets /hostfs joined with the hostpath and no error, also after a        *)
(* failed discovery.                                                       *)
C20_MountPointDiscoveredOnce ==
    /\ Len(discovered) <= 1
    /\ (hostPathOnce = "done") = (Len(discovered) = 1)
    /\ \A g \in Goroutines :
         LET c == provision[g] IN
         /\ c.pc = "discover" => (HostPathOf(c) = "" /\ discovered = <<>>)
         /\ (c.pc = "found" /\ HostPathOf(c) = "")
               => /\ Len(discovered) = 1
                  /\ c.mountPath = discovered[1].mountpoint
                  /\ c.err = discovered[1].err
         /\ (c.pc = "returned" /\ PastNodeCheck(c) /\ HostPathOf(c) = "")
               => /\ Len(discovered) = 1
                  /\ discovered[1].err # Nil => c.err = discovered[1].err
         /\ (c.pc = "found" /\ HostPathOf(c) # "")
               => (c.mountPath = "/hostfs" \o HostPathOf(c) /\ c.err = Nil)
         /\ (c.pc = "returned" /\ PastNodeCheck(c) /\ HostPathOf(c) # "")
               => c.err \in {Nil, "mkdir failed"}

\* the one discovery failed: two calls without hostpath, of which at most one
\* ran it, have returned its error; another call was made before them
C20_Witness ==
    /\ Len(discovered) = 1 /\ discovered[1].err # Nil
    /\ provisions = 3
    /\ \A g \in Goroutines :
          /\ provision[g].pc = "returned" /\ PastNodeCheck(provision[g])
          /\ HostPathOf(provision[g]) = ""
          /\ provision[g].err = discovered[1].err

(* C21: in the route table of Endpoints.Routes every (method, path) pair   *)
(* occurs once and no handler is bound to two routes; a request            *)
(* GET /api/kms/describe-key is served by another handler than the one     *)
(* that serves POST /api/kms/rotate-key-version.                           *)
C21_RoutesAndHandlersAreUnique ==
    /\ \A i, j \in DOMAIN routes :
          i # j => /\ <<routes[i].Method, routes[i].Path>>
                         # <<routes[j].Method, routes[j].Path>>
                   /\ routes[i].Handler # routes[j].Handler
    /\ \A k \in DOMAIN served :
          (served[k].Method = "GET" /\ served[k].Path = "/api/kms/describe-key")
              => /\ served[k].Handler # "NotFound"
                 /\ served[k].Handler
                        # Dispatch(routes, "POST", "/api/kms/rotate-key-version")

====
